---- MODULE Spec2Model ----
(***************************************************************************)
(* A model of fetch-happen (src/src/lib.rs): a builder-style wrapper       *)
(* around the browser's fetch.  The library's own code (RequestBuilder,    *)
(* Response, Client, get, post_json) is translated operation by operation; *)
(* the browser (Request constructor, Headers, fetch, body-read promises)   *)
(* and serde_json are the environment the library calls into.              *)
(***************************************************************************)
EXTENDS Integers, Sequences, FiniteSets, TLC

(***************************************************************************)
(* Bounds of the model.                                                    *)
(***************************************************************************)
\* Number of independent callers, each building and sending one request.
NumReqs == 2
\* Configuration calls one builder receives in the request life cycle (Spec).
MaxLifeCalls == 1
\* Configuration calls the single builder of SpecBuilder receives.
MaxCalls == 3

Reqs == 1..NumReqs

None == "None"

(***************************************************************************)
(* Method and Method::as_str (lib.rs 37-59).                               *)
(***************************************************************************)
Method == {"Method::GET", "Method::POST", "Method::PUT", "Method::DELETE",
           "Method::PATCH", "Method::HEAD", "Method::OPTIONS"}

as_str(m) ==
    CASE m = "Method::GET" -> "GET"
      [] m = "Method::POST" -> "POST"
      [] m = "Method::PUT" -> "PUT"
      [] m = "Method::DELETE" -> "DELETE"
      [] m = "Method::PATCH" -> "PATCH"
      [] m = "Method::HEAD" -> "HEAD"
      [] m = "Method::OPTIONS" -> "OPTIONS"

\* web_sys::RequestMode as re-exported at lib.rs 8.
RequestMode == {"Cors", "NoCors", "SameOrigin"}

(***************************************************************************)
(* serde_json, as far as json() and Response::json() use it.  A value is a *)
(* record of one shape; JSON text is a sequence of one-character strings.  *)
(***************************************************************************)
JVal(t, n, s, a) == [t |-> t, n |-> n, s |-> s, a |-> a]
JNull == JVal("null", 0, <<>>, <<>>)
JBool(b) == JVal(IF b THEN "true" ELSE "false", 0, <<>>, <<>>)
JNum(n) == JVal("num", n, <<>>, <<>>)
JStr(s) == JVal("str", 0, s, <<>>)
JArr(a) == JVal("arr", 0, <<>>, a)
\* A map whose keys are not strings: serde_json refuses it
\* ("key must be a string").
JBadMap == JVal("map_with_non_string_key", 0, <<>>, <<>>)

DigitChar(d) == <<"0", "1", "2", "3", "4", "5", "6", "7", "8", "9">>[d + 1]

RECURSIVE DecimalChars(_)
DecimalChars(n) ==
    IF n < 10 THEN <<DigitChar(n)>>
    ELSE DecimalChars(n \div 10) \o <<DigitChar(n % 10)>>

RECURSIVE EscapeChars(_)
EscapeChars(s) ==
    IF s = <<>> THEN <<>>
    ELSE (IF Head(s) \in {"\"", "\\"} THEN <<"\\", Head(s)>> ELSE <<Head(s)>>)
         \o EscapeChars(Tail(s))

SerializeScalar(v) ==
    CASE v.t = "null" -> <<"n", "u", "l", "l">>
      [] v.t = "true" -> <<"t", "r", "u", "e">>
      [] v.t = "false" -> <<"f", "a", "l", "s", "e">>
      [] v.t = "num" -> DecimalChars(v.n)
      [] v.t = "str" -> <<"\"">> \o EscapeChars(v.s) \o <<"\"">>

RECURSIVE SerializeItems(_)
SerializeItems(a) ==
    IF a = <<>> THEN <<>>
    ELSE IF Len(a) = 1 THEN SerializeScalar(a[1])
    ELSE SerializeScalar(a[1]) \o <<",">> \o SerializeItems(Tail(a))

Serializable(v) ==
    /\ v.t # "map_with_non_string_key"
    /\ \A k \in 1..Len(v.a) : v.a[k].t # "map_with_non_string_key"

\* serde_json::to_string: Ok(text) or Err(serde_json::Error).
to_string(v) ==
    IF ~Serializable(v) THEN [ok |-> FALSE, text |-> <<>>, err |-> "key must be a string"]
    ELSE IF v.t = "arr"
    THEN [ok |-> TRUE, text |-> <<"[">> \o SerializeItems(v.a) \o <<"]">>, err |-> ""]
    ELSE [ok |-> TRUE, text |-> SerializeScalar(v), err |-> ""]

IsDigit(c) == c \in {"0", "1", "2", "3", "4", "5", "6", "7", "8", "9"}

DigitVal(c) == CHOOSE d \in 0..9 : DigitChar(d) = c

StartsWith(s, p) == Len(s) >= Len(p) /\ SubSeq(s, 1, Len(p)) = p

Drop(s, k) == SubSeq(s, k + 1, Len(s))

ParseFail == [ok |-> FALSE, val |-> JNull, rest |-> <<>>]

ParseOk(v, rest) == [ok |-> TRUE, val |-> v, rest |-> rest]

\* Digits of a number, most significant first; acc is the value read so far.
RECURSIVE ParseDigits(_, _)
ParseDigits(s, acc) ==
    IF s # <<>> /\ IsDigit(Head(s))
    THEN ParseDigits(Tail(s), acc * 10 + DigitVal(Head(s)))
    ELSE ParseOk(JNum(acc), s)

\* The characters of a string literal after its opening quote.
RECURSIVE ParseStringBody(_, _)
ParseStringBody(s, acc) ==
    IF s = <<>> THEN ParseFail
    ELSE IF Head(s) = "\"" THEN ParseOk(JStr(acc), Tail(s))
    ELSE IF Head(s) = "\\"
    THEN (IF Len(s) >= 2 /\ s[2] \in {"\"", "\\"}
          THEN ParseStringBody(Drop(s, 2), Append(acc, s[2]))
          ELSE ParseFail)
    ELSE ParseStringBody(Tail(s), Append(acc, Head(s)))

ParseScalar(s) ==
    IF StartsWith(s, <<"n", "u", "l", "l">>) THEN ParseOk(JNull, Drop(s, 4))
    ELSE IF StartsWith(s, <<"t", "r", "u", "e">>) THEN ParseOk(JBool(TRUE), Drop(s, 4))
    ELSE IF StartsWith(s, <<"f", "a", "l", "s", "e">>) THEN ParseOk(JBool(FALSE), Drop(s, 5))
    ELSE IF s # <<>> /\ IsDigit(Head(s))
    THEN (IF Head(s) = "0" /\ Len(s) >= 2 /\ IsDigit(s[2]) THEN ParseFail
          ELSE ParseDigits(s, 0))
    ELSE IF s # <<>> /\ Head(s) = "\"" THEN ParseStringBody(Tail(s), <<>>)
    ELSE ParseFail

\* The items of an array after its opening bracket; acc holds those read so far.
RECURSIVE ParseItems(_, _)
ParseItems(s, acc) ==
    LET r == ParseScalar(s)
    IN  IF ~r.ok THEN ParseFail
        ELSE IF r.rest # <<>> /\ Head(r.rest) = "]"
        THEN ParseOk(JArr(Append(acc, r.val)), Tail(r.rest))
        ELSE IF r.rest # <<>> /\ Head(r.rest) = ","
        THEN ParseItems(Tail(r.rest), Append(acc, r.val))
        ELSE ParseFail

ParseValue(s) ==
    IF s # <<>> /\ Head(s) = "["
    THEN (IF Len(s) >= 2 /\ s[2] = "]" THEN ParseOk(JArr(<<>>), Drop(s, 2))
          ELSE ParseItems(Tail(s), <<>>))
    ELSE ParseScalar(s)

\* The shapes a caller may ask Response::json::<T>() for: "Value" accepts any
\* JSON value (json_value), another shape accepts only values of its own kind.
MatchesShape(v, shape) ==
    \/ shape = "Value"
    \/ shape = "String" /\ v.t = "str"
    \/ shape = "u16" /\ v.t = "num"
    \/ shape = "Vec" /\ v.t = "arr"

\* serde_json::from_str::<T>: Ok(value) or Err(serde_json::Error).
from_str(text, shape) ==
    LET r == ParseValue(text)
    IN  IF ~r.ok THEN [ok |-> FALSE, val |-> JNull, err |-> "expected value"]
        ELSE IF r.rest # <<>> THEN [ok |-> FALSE, val |-> JNull, err |-> "trailing characters"]
        ELSE IF ~MatchesShape(r.val, shape) THEN [ok |-> FALSE, val |-> JNull, err |-> "invalid type"]
        ELSE [ok |-> TRUE, val |-> r.val, err |-> ""]

(***************************************************************************)
(* Error (lib.rs 14-33) and Result.                                        *)
(***************************************************************************)
JsError(value) == [kind |-> "JsError", code |-> 0, msg |-> value]

HttpError(code, text) == [kind |-> "HttpError", code |-> code, msg |-> text]

JsonError(text) == [kind |-> "JsonError", code |-> 0, msg |-> text]

\* impl From<JsValue> for Error
From_JsValue(value) == JsError(value)

\* impl From<serde_json::Error> for Error
From_serde_json_Error(err) == JsonError(err)

NoError == [kind |-> "none", code |-> 0, msg |-> ""]

(***************************************************************************)
(* RequestBuilder (lib.rs 62-112).  headers is a HashMap<String, String>:  *)
(* a set of <<key, value>> pairs with at most one pair per key, the keys   *)
(* compared as the exact strings they are.  body is an Option<String>.     *)
(***************************************************************************)
NoBody == [some |-> FALSE, text |-> <<>>]

SomeBody(text) == [some |-> TRUE, text |-> text]

\* HashMap::insert
HashMap_insert(map, key, value) == {p \in map : p[1] # key} \cup {<<key, value>>}

\* HashMap::extend: insert every pair of the other map.
HashMap_extend(map, other) == {p \in map : \A q \in other : q[1] # p[1]} \cup other

\* HashMap::get
HashMap_get(map, key) == IF \E p \in map : p[1] = key THEN (CHOOSE p \in map : p[1] = key)[2] ELSE None

HashMap_keys(map) == {p[1] : p \in map}

RequestBuilder_new(method, url) ==
    [url |-> url, method |-> method, headers |-> {}, body |-> NoBody, mode |-> "Cors"]

RequestBuilder_header(self, key, value) ==
    [self EXCEPT !.headers = HashMap_insert(self.headers, key, value)]

\* A headers() that replaces the mapping instead of merging into it.
RequestBuilder_headers_replaces(self, map) == [self EXCEPT !.headers = map]

RequestBuilder_headers(self, map) ==
    [self EXCEPT !.headers = HashMap_extend(self.headers, map)]

RequestBuilder_mode(self, m) == [self EXCEPT !.mode = m]

RequestBuilder_body(self, text) == [self EXCEPT !.body = SomeBody(text)]

\* A json() that drops the serialization error and goes on.
RequestBuilder_json_ignores_error(self, value) ==
    LET r == to_string(value)
    IN  [ok |-> TRUE,
         builder |-> [self EXCEPT !.body = SomeBody(r.text),
                                  !.headers = HashMap_insert(self.headers, "Content-Type", "application/json")],
         err |-> NoError]

\* Result<Self>: the builder on success, Error::JsonError when to_string fails.
RequestBuilder_json(self, value) ==
    LET r == to_string(value)
    IN  IF ~r.ok THEN [ok |-> FALSE, builder |-> self, err |-> From_serde_json_Error(r.err)]
        ELSE [ok |-> TRUE,
              builder |-> [self EXCEPT !.body = SomeBody(r.text),
                                       !.headers = HashMap_insert(self.headers, "Content-Type", "application/json")],
              err |-> NoError]

(***************************************************************************)
(* The host objects send() calls into (lib.rs 116-134).                    *)
(***************************************************************************)
\* The URLs callers pass; the host's Request constructor refuses the last.
GoodUrls == {"https://h/a", "https://h/b", "https://h/c", "https://h/d"}
BadUrl == "http://["

\* A header value the host's Headers.set refuses (it holds a line break).
BadHeaderValue == "a\nb"

\* The host compares header names without regard to letter case.
Lower(name) ==
    CASE name \in {"Content-Type", "content-type", "CONTENT-TYPE"} -> "content-type"
      [] name \in {"Accept", "accept"} -> "accept"
      [] OTHER -> name

\* RequestInit::new, set_method, set_mode, set_body (lib.rs 116-122).
RequestInit(self) == [method |-> as_str(self.method), mode |-> self.mode, body |-> self.body]

\* WebRequest::new_with_str_and_init (lib.rs 124): the host throws a TypeError
\* for a URL it cannot parse and for a GET or HEAD request that has a body.
WebRequest_new(url, opts) ==
    IF url \notin GoodUrls THEN [ok |-> FALSE, err |-> "TypeError: invalid URL"]
    ELSE IF opts.body.some /\ opts.method \in {"GET", "HEAD"}
    THEN [ok |-> FALSE, err |-> "TypeError: GET/HEAD request with body"]
    ELSE [ok |-> TRUE, err |-> "",
          request |-> [url |-> url, method |-> opts.method, mode |-> opts.mode,
                       body |-> opts.body, headers |-> {}, handed |-> {}]]

\* Headers.set as called at lib.rs 128: the host replaces the value it holds
\* under the lower-cased name, or throws a TypeError for an invalid value.
\* handed records the pairs exactly as the library passed them.
Headers_set(request, key, value) ==
    IF value = BadHeaderValue THEN [ok |-> FALSE, err |-> "TypeError: invalid header value", request |-> request]
    ELSE [ok |-> TRUE, err |-> "",
          request |-> [request EXCEPT !.headers = HashMap_insert(request.headers, Lower(key), value),
                                      !.handed = request.handed \cup {<<key, value>>}]]

\* The orders in which iterating a HashMap may visit its pairs.
Orderings(map) ==
    {o \in [1..Cardinality(map) -> map] : \A a, b \in 1..Cardinality(map) : o[a] = o[b] => a = b}

\* The loop of lib.rs 127-129 over the pairs in the order o, from pair k on.
RECURSIVE CopyHeaders(_, _, _)
CopyHeaders(request, o, k) ==
    IF k > Len(o) THEN [ok |-> TRUE, err |-> "", request |-> request]
    ELSE LET r == Headers_set(request, o[k][1], o[k][2])
         IN  IF ~r.ok THEN r ELSE CopyHeaders(r.request, o, k + 1)

\* A send() that invokes fetch a second time.
SendStart_fetches_again(self, o, window) ==
    LET opts == RequestInit(self)
        made_ == WebRequest_new(self.url, opts)
        copied == CopyHeaders(made_.request, o, 1)
    IN  IF ~made_.ok
        THEN [constructed |-> 0, fetches |-> 0, err |-> From_JsValue(made_.err)]
        ELSE IF ~copied.ok
        THEN [constructed |-> 1, fetches |-> 0, err |-> From_JsValue(copied.err)]
        ELSE IF ~window
        THEN [constructed |-> 1, fetches |-> 0, err |-> JsError("Failed to get window")]
        ELSE [constructed |-> 1, fetches |-> 2, err |-> NoError, request |-> copied.request]

\* send() up to its first suspension (lib.rs 116-134): either an early return
\* with an error, or the one call of window.fetch_with_request.
\*   o: the order in which the HashMap yields the headers
\*   window: whether web_sys::window() finds a window
SendStart(self, o, window) ==
    LET opts == RequestInit(self)
        made_ == WebRequest_new(self.url, opts)
        copied == CopyHeaders(made_.request, o, 1)
    IN  IF ~made_.ok
        THEN [constructed |-> 0, fetches |-> 0, err |-> From_JsValue(made_.err)]
        ELSE IF ~copied.ok
        THEN [constructed |-> 1, fetches |-> 0, err |-> From_JsValue(copied.err)]
        ELSE IF ~window
        THEN [constructed |-> 1, fetches |-> 0, err |-> JsError("Failed to get window")]
        ELSE [constructed |-> 1, fetches |-> 1, err |-> NoError, request |-> copied.request]

(***************************************************************************)
(* Response (lib.rs 144-206) and the host's response object.               *)
(***************************************************************************)
\* The host's Response object answering the fetch of caller i.
\* The host sets ok for a status in 200..299 (the range the doc comment of
\* lib.rs 158 names).
WebResponse(i, url, status, body) ==
    [kind |-> "Response", for |-> i, url |-> url, status |-> status,
     ok |-> status \in 200..299, body |-> body]

\* What else a host promise may settle with (a value that is no Response,
\* or no string).
Foreign == [kind |-> "Other"]

Response_from_web_response(response) == [inner |-> response]

Response_status(self) == self.inner.status

\* Response::ok returns the host's own flag.
Response_ok(self) == self.inner.ok

\* format!("{}", status) for a u16.
RECURSIVE FormatU16(_)
FormatU16(n) ==
    IF n < 10 THEN DigitChar(n)
    ELSE FormatU16(n \div 10) \o DigitChar(n % 10)

\* An error_for_status() that lets every status below 400 pass.
Response_error_for_status_below_400(self) ==
    IF Response_status(self) < 400 THEN [ok |-> TRUE, response |-> self, err |-> NoError]
    ELSE LET status == Response_status(self)
             text == "HTTP Error " \o FormatU16(status)
         IN  [ok |-> FALSE, response |-> self, err |-> HttpError(status, text)]

Response_error_for_status(self) ==
    IF Response_ok(self) THEN [ok |-> TRUE, response |-> self, err |-> NoError]
    ELSE LET status == Response_status(self)
             text == "HTTP Error " \o FormatU16(status)
         IN  [ok |-> FALSE, response |-> self, err |-> HttpError(status, text)]

\* The bytes of the characters a body is made of (UTF-8, all of them ASCII).
ByteOf(c) ==
    CASE c = "\"" -> 34
      [] c = "," -> 44
      [] c = "1" -> 49
      [] c = "2" -> 50
      [] c = "3" -> 51
      [] c = "7" -> 55
      [] c = "[" -> 91
      [] c = "]" -> 93
      [] c = "a" -> 97
      [] c = "k" -> 107
      [] c = "o" -> 111
      [] c = "p" -> 112
      [] c = "s" -> 115
      [] OTHER -> 63

Utf8(text) == [k \in 1..Len(text) |-> ByteOf(text[k])]

\* A settled or pending host promise.
Pending == [state |-> "pending", val |-> Foreign]
Resolved(val) == [state |-> "resolved", val |-> val]
Rejected(val) == [state |-> "rejected", val |-> [kind |-> "Error", msg |-> val]]
NoPromise == [state |-> "none", val |-> Foreign]

\* text() once the host has settled the promise of inner.text() (lib.rs 171-174).
Response_text_finish(promise) ==
    IF promise.state = "rejected" THEN [ok |-> FALSE, err |-> From_JsValue(promise.val.msg), val |-> <<>>]
    ELSE IF promise.val.kind # "String"
    THEN [ok |-> FALSE, err |-> JsError("Failed to convert to string"), val |-> <<>>]
    ELSE [ok |-> TRUE, err |-> NoError, val |-> promise.val.text]

\* json::<T>() after its text() (lib.rs 179-180).
Response_json_finish(promise, shape) ==
    LET text == Response_text_finish(promise)
        parsed == from_str(text.val, shape)
    IN  IF ~text.ok THEN text
        ELSE IF ~parsed.ok THEN [ok |-> FALSE, err |-> From_serde_json_Error(parsed.err), val |-> <<>>]
        ELSE [ok |-> TRUE, err |-> NoError, val |-> parsed.val]

\* json_value() is json::<Value>() (lib.rs 184-186).
Response_json_value_finish(promise) == Response_json_finish(promise, "Value")

\* bytes() once the host has settled the promise of inner.array_buffer()
\* (lib.rs 191-193).
Response_bytes_finish(promise) ==
    IF promise.state = "rejected" THEN [ok |-> FALSE, err |-> From_JsValue(promise.val.msg), val |-> <<>>]
    ELSE [ok |-> TRUE, err |-> NoError, val |-> promise.val.bytes]

\* The body-reading operations and the result each gives once the host has
\* settled its promise.
ReadKinds == {"text", "json", "json_value", "bytes"}

ReadFinish(kind, shape, promise) ==
    CASE kind = "text" -> Response_text_finish(promise)
      [] kind = "json" -> Response_json_finish(promise, shape)
      [] kind = "json_value" -> Response_json_value_finish(promise)
      [] kind = "bytes" -> Response_bytes_finish(promise)

\* A send() that replaces the host's rejection value by a message of its own.
SendFinish_masks_rejection(promise) ==
    IF promise.state = "rejected" THEN [ok |-> FALSE, err |-> JsError("Response conversion failed")]
    ELSE IF promise.val.kind # "Response"
    THEN [ok |-> FALSE, err |-> JsError("Response conversion failed")]
    ELSE [ok |-> TRUE, err |-> NoError, response |-> Response_from_web_response(promise.val)]

\* A send() that turns a status outside 200..299 into an error by itself.
SendFinish_checks_status(promise) ==
    IF promise.state = "rejected" THEN [ok |-> FALSE, err |-> From_JsValue(promise.val.msg)]
    ELSE IF promise.val.kind # "Response"
    THEN [ok |-> FALSE, err |-> JsError("Response conversion failed")]
    ELSE IF ~promise.val.ok
    THEN [ok |-> FALSE, err |-> HttpError(promise.val.status, "HTTP Error " \o FormatU16(promise.val.status))]
    ELSE [ok |-> TRUE, err |-> NoError, response |-> Response_from_web_response(promise.val)]

\* send() after its suspension (lib.rs 134-139).
SendFinish(promise) ==
    IF promise.state = "rejected" THEN [ok |-> FALSE, err |-> From_JsValue(promise.val.msg)]
    ELSE IF promise.val.kind # "Response"
    THEN [ok |-> FALSE, err |-> JsError("Response conversion failed")]
    ELSE [ok |-> TRUE, err |-> NoError, response |-> Response_from_web_response(promise.val)]

(***************************************************************************)
(* Client (lib.rs 209-236).                                                *)
(***************************************************************************)
Client_get(url) == RequestBuilder_new("Method::GET", url)
Client_post(url) == RequestBuilder_new("Method::POST", url)
Client_put(url) == RequestBuilder_new("Method::PUT", url)
Client_delete(url) == RequestBuilder_new("Method::DELETE", url)
Client_patch(url) == RequestBuilder_new("Method::PATCH", url)

Verbs == {"get", "post", "put", "delete", "patch"}

Client(verb, url) ==
    CASE verb = "get" -> Client_get(url)
      [] verb = "post" -> Client_post(url)
      [] verb = "put" -> Client_put(url)
      [] verb = "delete" -> Client_delete(url)
      [] verb = "patch" -> Client_patch(url)

(***************************************************************************)
(* The state: one request per caller i.                                    *)
(*   pc[i]           where caller i is in its request                      *)
(*   builder[i]      the RequestBuilder caller i owns (from new() until    *)
(*                   send() returns), Absent otherwise                     *)
(*   calls[i]        the configuration calls made on builder[i] so far     *)
(*   sends[i]        how often send() was invoked                          *)
(*   made[i]         how many host Request objects were constructed        *)
(*   fetchCalls[i]   how often window.fetch_with_request was invoked       *)
(*   hostReq[i]      the request object the host's fetch was given         *)
(*   fetchPromise[i] the promise fetch returned                            *)
(*   wrapper[i]      the Response caller i owns, Absent otherwise          *)
(*   efs[i]          what the last error_for_status() returned             *)
(*   reads[i]        how many body-reading operations were started         *)
(*   readOp[i]       the body-reading operation in progress                *)
(*   readPromise[i]  the promise inner.text() / inner.array_buffer() gave  *)
(*   result[i]       what the chain of calls finally returned              *)
(***************************************************************************)
VARIABLES pc, builder, calls, sends, made, fetchCalls, hostReq, fetchPromise,
          wrapper, efs, reads, readOp, readPromise, result

vars == <<pc, builder, calls, sends, made, fetchCalls, hostReq, fetchPromise,
          wrapper, efs, reads, readOp, readPromise, result>>

Absent == [absent |-> TRUE]

NotCalled == [called |-> FALSE]

NoRead == [kind |-> "none", shape |-> "none"]

NoResult == [op |-> "none", ok |-> FALSE, err |-> NoError]

Init ==
    /\ pc = [i \in Reqs |-> "idle"]
    /\ builder = [i \in Reqs |-> Absent]
    /\ calls = [i \in Reqs |-> <<>>]
    /\ sends = [i \in Reqs |-> 0]
    /\ made = [i \in Reqs |-> 0]
    /\ fetchCalls = [i \in Reqs |-> 0]
    /\ hostReq = [i \in Reqs |-> Absent]
    /\ fetchPromise = [i \in Reqs |-> NoPromise]
    /\ wrapper = [i \in Reqs |-> Absent]
    /\ efs = [i \in Reqs |-> NotCalled]
    /\ reads = [i \in Reqs |-> 0]
    /\ readOp = [i \in Reqs |-> NoRead]
    /\ readPromise = [i \in Reqs |-> NoPromise]
    /\ result = [i \in Reqs |-> NoResult]

\* A configuration call as calls[i] records it: the header pairs it wrote.
Call(op, pairs) == [op |-> op, pairs |-> pairs]

\* A json(value) call as calls[i] records it.
JsonCall(value) ==
    [op |-> "json", pairs |-> {<<"Content-Type", "application/json">>}, value |-> value]

\* The operation op returns Err(err) and the `?` of the caller ends the chain
\* of calls; whatever builder there was is dropped.
Fail(i, op, err) ==
    /\ pc' = [pc EXCEPT ![i] = "failed"]
    /\ builder' = [builder EXCEPT ![i] = Absent]
    /\ result' = [result EXCEPT ![i] = [op |-> op, ok |-> FALSE, err |-> err]]

\* Client::get / post / put / delete / patch: a new builder.
NewRequest(i, verb, url) ==
    /\ pc[i] = "idle"
    /\ pc' = [pc EXCEPT ![i] = "building"]
    /\ builder' = [builder EXCEPT ![i] = Client(verb, url)]
    /\ UNCHANGED <<calls, sends, made, fetchCalls, hostReq, fetchPromise,
                   wrapper, efs, reads, readOp, readPromise, result>>

\* A configuration method takes the builder by value and returns it: it can
\* be called only on a builder that send() has not consumed.
Configure(i, b, call) ==
    /\ builder' = [builder EXCEPT ![i] = b]
    /\ calls' = [calls EXCEPT ![i] = Append(@, call)]
    /\ UNCHANGED <<pc, sends, made, fetchCalls, hostReq, fetchPromise,
                   wrapper, efs, reads, readOp, readPromise, result>>

\* A header() that writes into a map all builders share.
Header_shared(i, key, value) ==
    /\ pc[i] = "building"
    /\ builder' = [j \in Reqs |-> IF pc[j] = "building"
                                  THEN RequestBuilder_header(builder[j], key, value)
                                  ELSE builder[j]]
    /\ calls' = [calls EXCEPT ![i] = Append(@, Call("header", {<<key, value>>}))]
    /\ UNCHANGED <<pc, sends, made, fetchCalls, hostReq, fetchPromise,
                   wrapper, efs, reads, readOp, readPromise, result>>

Header(i, key, value) ==
    /\ pc[i] = "building"
    /\ Configure(i, RequestBuilder_header(builder[i], key, value),
                 Call("header", {<<key, value>>}))

Headers(i, map) ==
    /\ pc[i] = "building"
    /\ Configure(i, RequestBuilder_headers(builder[i], map), Call("headers", map))

Mode(i, m) ==
    /\ pc[i] = "building"
    /\ Configure(i, RequestBuilder_mode(builder[i], m), Call("mode", {}))

Body(i, text) ==
    /\ pc[i] = "building"
    /\ Configure(i, RequestBuilder_body(builder[i], text), Call("body", {}))

Json(i, value) ==
    /\ pc[i] = "building"
    /\ LET r == RequestBuilder_json(builder[i], value)
       IN  IF r.ok
           THEN Configure(i, r.builder, JsonCall(value))
           ELSE /\ Fail(i, "json", r.err)
                /\ calls' = [calls EXCEPT ![i] = Append(@, JsonCall(value))]
                /\ UNCHANGED <<sends, made, fetchCalls, hostReq, fetchPromise,
                               wrapper, efs, reads, readOp, readPromise>>

\* send() from its call to its first suspension, on the builder self.
DoSend(i, self, o, window) ==
    LET s == SendStart(self, o, window)
    IN  /\ sends' = [sends EXCEPT ![i] = @ + 1]
        /\ made' = [made EXCEPT ![i] = @ + s.constructed]
        /\ fetchCalls' = [fetchCalls EXCEPT ![i] = @ + s.fetches]
        /\ calls' = [calls EXCEPT ![i] = <<>>]
        /\ IF s.fetches > 0
           THEN /\ pc' = [pc EXCEPT ![i] = "awaitFetch"]
                /\ builder' = [builder EXCEPT ![i] = self]
                /\ hostReq' = [hostReq EXCEPT ![i] = s.request]
                /\ fetchPromise' = [fetchPromise EXCEPT ![i] = Pending]
                /\ UNCHANGED result
           ELSE /\ Fail(i, "send", s.err)
                /\ UNCHANGED <<hostReq, fetchPromise>>
        /\ UNCHANGED <<wrapper, efs, reads, readOp, readPromise>>

\* RequestBuilder::send: consumes the builder.
Send(i, o, window) ==
    /\ pc[i] = "building"
    /\ o \in Orderings(builder[i].headers)
    /\ DoSend(i, builder[i], o, window)

\* get(url): Client.get(url).send().await (lib.rs 239-241).
Get(i, url, window) ==
    /\ pc[i] = "idle"
    /\ DoSend(i, Client_get(url), <<>>, window)

\* post_json(url, json): Client.post(url).json(json)?.send().await
\* (lib.rs 244-246).
PostJson(i, url, value, window) ==
    /\ pc[i] = "idle"
    /\ LET r == RequestBuilder_json(Client_post(url), value)
       IN  IF r.ok
           THEN \E o \in Orderings(r.builder.headers) : DoSend(i, r.builder, o, window)
           ELSE /\ Fail(i, "json", r.err)
                /\ calls' = [calls EXCEPT ![i] = <<JsonCall(value)>>]
                /\ UNCHANGED <<sends, made, fetchCalls, hostReq, fetchPromise,
                               wrapper, efs, reads, readOp, readPromise>>

\* What the host may settle the fetch of caller i with: a Response to the
\* request it was given, a rejection, or (a replaced window.fetch) a value
\* that is no Response.
FetchAnswers(i, request, statuses, bodies, others) ==
    {Resolved(WebResponse(i, request.url, st, b)) : st \in statuses, b \in bodies}
    \cup others

\* The host settles the promise fetch returned.
HostSettleFetch(i, answer) ==
    /\ pc[i] = "awaitFetch"
    /\ fetchPromise[i].state = "pending"
    /\ fetchPromise' = [fetchPromise EXCEPT ![i] = answer]
    /\ UNCHANGED <<pc, builder, calls, sends, made, fetchCalls, hostReq,
                   wrapper, efs, reads, readOp, readPromise, result>>

\* A send() that does not wait for the host to settle the fetch.
SendResume_early(i) ==
    /\ pc[i] = "awaitFetch"
    /\ LET r == SendFinish(fetchPromise[i])
       IN  IF r.ok
           THEN /\ pc' = [pc EXCEPT ![i] = "haveResponse"]
                /\ wrapper' = [wrapper EXCEPT ![i] = r.response]
                /\ builder' = [builder EXCEPT ![i] = Absent]
                /\ UNCHANGED result
           ELSE /\ Fail(i, "send", r.err)
                /\ UNCHANGED wrapper
    /\ hostReq' = [hostReq EXCEPT ![i] = Absent]
    /\ UNCHANGED <<calls, sends, made, fetchCalls, fetchPromise, efs, reads, readOp, readPromise>>

\* send() resumes after the await of lib.rs 134.
SendResume(i) ==
    /\ pc[i] = "awaitFetch"
    /\ fetchPromise[i].state # "pending"
    /\ LET r == SendFinish(fetchPromise[i])
       IN  IF r.ok
           THEN /\ pc' = [pc EXCEPT ![i] = "haveResponse"]
                /\ wrapper' = [wrapper EXCEPT ![i] = r.response]
                /\ builder' = [builder EXCEPT ![i] = Absent]
                /\ UNCHANGED result
           ELSE /\ Fail(i, "send", r.err)
                /\ UNCHANGED wrapper
    /\ hostReq' = [hostReq EXCEPT ![i] = Absent]
    /\ UNCHANGED <<calls, sends, made, fetchCalls, fetchPromise, efs, reads, readOp, readPromise>>

\* Response::error_for_status: takes the wrapper by value; returns it when ok.
ErrorForStatus(i) ==
    /\ pc[i] = "haveResponse"
    /\ wrapper[i] # Absent
    /\ LET r == Response_error_for_status(wrapper[i])
       IN  /\ efs' = [efs EXCEPT ![i] = [called |-> TRUE, ok |-> r.ok, response |-> r.response, err |-> r.err]]
           /\ IF r.ok
              THEN /\ wrapper' = [wrapper EXCEPT ![i] = r.response]
                   /\ UNCHANGED <<pc, builder, result>>
              ELSE /\ wrapper' = [wrapper EXCEPT ![i] = Absent]
                   /\ Fail(i, "error_for_status", r.err)
    /\ UNCHANGED <<calls, sends, made, fetchCalls, hostReq, fetchPromise, reads, readOp, readPromise>>

\* Body-reading operations that borrow the wrapper and leave it with the caller.
AfterBodyRead_borrowed(self) == self

\* text(self), json(self), json_value(self), bytes(self): the wrapper is moved
\* into the call, so the caller holds none afterwards.
AfterBodyRead(self) == Absent

\* A body-reading operation up to its suspension: inner.text() (lib.rs 170) or
\* inner.array_buffer() (lib.rs 190) gives a promise, or throws.
ReadStart(i, kind, shape, throws) ==
    /\ wrapper[i] # Absent
    /\ reads' = [reads EXCEPT ![i] = @ + 1]
    /\ wrapper' = [wrapper EXCEPT ![i] = AfterBodyRead(wrapper[i])]
    /\ readOp' = [readOp EXCEPT ![i] = [kind |-> kind, shape |-> shape]]
    /\ IF throws
       THEN /\ Fail(i, kind, JsError("TypeError: body stream is locked"))
            /\ UNCHANGED readPromise
       ELSE /\ pc' = [pc EXCEPT ![i] = "awaitRead"]
            /\ readPromise' = [readPromise EXCEPT ![i] = Pending]
            /\ UNCHANGED <<builder, result>>
    /\ UNCHANGED <<calls, sends, made, fetchCalls, hostReq, fetchPromise, efs>>

\* What the host settles a body-read promise of the response with.
ReadAnswer(response, kind, outcome) ==
    CASE outcome = "reject" -> Rejected("TypeError: network error")
      [] outcome = "foreign" -> Resolved(Foreign)
      [] outcome = "resolve" /\ kind = "bytes" ->
           Resolved([kind |-> "ArrayBuffer", for |-> response.for, bytes |-> Utf8(response.body)])
      [] outcome = "resolve" /\ kind # "bytes" ->
           Resolved([kind |-> "String", for |-> response.for, text |-> response.body])

\* The host settles the body-read promise of the response it gave caller i.
HostSettleRead(i, outcome) ==
    /\ pc[i] = "awaitRead"
    /\ readPromise[i].state = "pending"
    /\ outcome = "foreign" => readOp[i].kind # "bytes"
    /\ readPromise' = [readPromise EXCEPT ![i] = ReadAnswer(fetchPromise[i].val, readOp[i].kind, outcome)]
    /\ UNCHANGED <<pc, builder, calls, sends, made, fetchCalls, hostReq, fetchPromise,
                   wrapper, efs, reads, readOp, result>>

\* The body-reading operation resumes after its await (lib.rs 171, 191).
ReadResume(i) ==
    /\ pc[i] = "awaitRead"
    /\ readPromise[i].state # "pending"
    /\ LET r == ReadFinish(readOp[i].kind, readOp[i].shape, readPromise[i])
       IN  /\ pc' = [pc EXCEPT ![i] = IF r.ok THEN "done" ELSE "failed"]
           /\ result' = [result EXCEPT ![i] = [op |-> readOp[i].kind, ok |-> r.ok, err |-> r.err, val |-> r.val]]
    /\ UNCHANGED <<builder, calls, sends, made, fetchCalls, hostReq, fetchPromise,
                   wrapper, efs, reads, readOp, readPromise>>

(***************************************************************************)
(* Spec: NumReqs callers, each with inputs of its own, in every            *)
(* interleaving.                                                           *)
(***************************************************************************)
UrlOf(i) == <<"https://h/a", "https://h/b", "https://h/c", "https://h/d">>[((i - 1) % 4) + 1]

AcceptOf(i) == <<"text/a", "text/b", "text/c", "text/d">>[((i - 1) % 4) + 1]

ValueOf(i) == JNum(i)

LifeStatuses == {200, 404}

\* The body of the host's answer to the request of caller i.
BodyOf(i) == <<"o", "k", DigitChar(i)>>

FetchFailure == Rejected("TypeError: Failed to fetch")

Next ==
    \/ \E i \in Reqs : NewRequest(i, "post", UrlOf(i))
    \/ \E i \in Reqs : Len(calls[i]) < MaxLifeCalls /\ Header(i, "Accept", AcceptOf(i))
    \/ \E i \in Reqs : Len(calls[i]) < MaxLifeCalls /\ Json(i, ValueOf(i))
    \/ \E i \in Reqs : pc[i] = "building" /\ \E o \in Orderings(builder[i].headers) : Send(i, o, TRUE)
    \/ \E i \in Reqs : Get(i, UrlOf(i), TRUE)
    \/ \E i \in Reqs :
         /\ pc[i] = "awaitFetch"
         /\ \E answer \in FetchAnswers(i, hostReq[i], LifeStatuses, {BodyOf(i)}, {FetchFailure}) :
              HostSettleFetch(i, answer)
    \/ \E i \in Reqs : SendResume(i)
    \/ \E i \in Reqs : ErrorForStatus(i)
    \/ \E i \in Reqs : ReadStart(i, "text", "none", FALSE)
    \/ \E i \in Reqs : HostSettleRead(i, "resolve")
    \/ \E i \in Reqs : ReadResume(i)

Spec == Init /\ [][Next]_vars

(***************************************************************************)
(* SpecOne: one caller, with every kind of input.                          *)
(***************************************************************************)
OneUrls == {"https://h/a", BadUrl}

OneHeaders == {<<"Content-Type", "text/plain">>, <<"content-type", "text/plain">>,
               <<"Accept", BadHeaderValue>>}

OneMaps == {{<<"Accept", "*/*">>, <<"content-type", "text/html">>}}

OneValues == {JArr(<<JNum(7), JStr(<<"a", "\"">>)>>), JBadMap}

OneStatuses == {0, 199, 200, 299, 300, 404}

OneBodies == {<<"[", "7", ",", "\"", "a", "\"", "]">>, <<"o", "o", "p", "s">>}

OneShapes(kind) == IF kind = "json" THEN {"Vec", "String"} ELSE {"none"}

NextOne ==
    \/ \E verb \in Verbs, url \in OneUrls : NewRequest(1, verb, url)
    \/ \E h \in OneHeaders : Len(calls[1]) < MaxCalls /\ Header(1, h[1], h[2])
    \/ \E map \in OneMaps : Len(calls[1]) < MaxCalls /\ Headers(1, map)
    \/ Len(calls[1]) < MaxCalls /\ Mode(1, "NoCors")
    \/ Len(calls[1]) < MaxCalls /\ Body(1, <<"x">>)
    \/ \E value \in OneValues : Len(calls[1]) < MaxCalls /\ Json(1, value)
    \/ pc[1] = "building" /\ \E window \in BOOLEAN : \E o \in Orderings(builder[1].headers) : Send(1, o, window)
    \/ \E url \in OneUrls, window \in BOOLEAN : Get(1, url, window)
    \/ \E url \in OneUrls, value \in OneValues, window \in BOOLEAN : PostJson(1, url, value, window)
    \/ /\ pc[1] = "awaitFetch"
       /\ \E answer \in FetchAnswers(1, hostReq[1], OneStatuses, OneBodies, {FetchFailure, Resolved(Foreign)}) :
            HostSettleFetch(1, answer)
    \/ SendResume(1)
    \/ ErrorForStatus(1)
    \/ \E kind \in ReadKinds : \E shape \in OneShapes(kind) : \E throws \in BOOLEAN :
         ReadStart(1, kind, shape, throws)
    \/ \E outcome \in {"resolve", "reject", "foreign"} : HostSettleRead(1, outcome)
    \/ ReadResume(1)

SpecOne == Init /\ [][NextOne]_vars

(***************************************************************************)
(* The claims.                                                             *)
(***************************************************************************)
Last(seq) == seq[Len(seq)]

\* C1, as stated: whenever json(v) is the last configuration call before
\* send() and send() reaches the host's fetch, the request the host holds has
\* Content-Type exactly application/json and a body that is the serialization
\* of v (and parses back to v), whatever header()/headers() calls came before.
\* The code violates it: a header written earlier under another letter case
\* ("content-type") stays in the HashMap beside "Content-Type", and the host
\* keeps whichever of the two the HashMap yields last.
C1_JsonThenSendSetsContentType ==
    [][\A i \in Reqs :
         (/\ pc[i] = "building"
          /\ calls[i] # <<>>
          /\ Last(calls[i]).op = "json"
          /\ pc'[i] = "awaitFetch")
         => /\ HashMap_get(hostReq'[i].headers, "content-type") = "application/json"
            /\ hostReq'[i].body.some
            /\ hostReq'[i].body.text = to_string(Last(calls[i]).value).text
            /\ from_str(hostReq'[i].body.text, "Value").ok
            /\ from_str(hostReq'[i].body.text, "Value").val = Last(calls[i]).value]_vars

\* The value the last call of cs that wrote key gave it, None when none did.
LastWritten(cs, key) ==
    LET writers == {n \in 1..Len(cs) : \E p \in cs[n].pairs : p[1] = key}
        last == CHOOSE n \in writers : \A m \in writers : m <= n
    IN  IF writers = {} THEN None
        ELSE (CHOOSE p \in cs[last].pairs : p[1] = key)[2]

CallKeys(cs) == UNION {{p[1] : p \in cs[n].pairs} : n \in 1..Len(cs)}

\* C2: while a builder is being configured, its headers hold, for every key,
\* the value of the last call (header, headers or json) that wrote that key,
\* hold nothing for a key no call wrote, and hold one value per key: a later
\* call overwrites only the keys it writes, in whichever order header() and
\* headers() collide.
C2_LastWriteWins ==
    \A i \in Reqs :
      pc[i] = "building" =>
        /\ \A k \in HashMap_keys(builder[i].headers) \cup CallKeys(calls[i]) :
             HashMap_get(builder[i].headers, k) = LastWritten(calls[i], k)
        /\ \A p, q \in builder[i].headers : p[1] = q[1] => p = q

\* C2's case: header(), then headers() colliding with it, then header()
\* colliding with that, the key only headers() wrote being kept.
C2_Witness ==
    /\ pc[1] = "building"
    /\ Len(calls[1]) = 3
    /\ calls[1][1] = Call("header", {<<"content-type", "text/plain">>})
    /\ calls[1][2] = Call("headers", {<<"Accept", "*/*">>, <<"content-type", "text/html">>})
    /\ calls[1][3] = Call("header", {<<"content-type", "text/plain">>})
    /\ builder[1].headers = {<<"Accept", "*/*">>, <<"content-type", "text/plain">>}

\* The message format!("HTTP Error {}", status) gives for the statuses the
\* host answers with.
ExpectedMessage(status) ==
    CASE status = 0 -> "HTTP Error 0"
      [] status = 199 -> "HTTP Error 199"
      [] status = 300 -> "HTTP Error 300"
      [] status = 404 -> "HTTP Error 404"
      [] OTHER -> "not an error"

\* C3: error_for_status() returns the very response it was called on exactly
\* when its status is in 200..299 (199 and 300 fail, 200 and 299 pass);
\* otherwise it fails with HttpError(status, "HTTP Error <status>"), an error
\* that holds the code and that message and nothing of the body.
C3_ErrorForStatus ==
    \A i \in Reqs :
      efs[i].called =>
        LET st == fetchPromise[i].val.status
        IN  /\ efs[i].ok <=> st \in 200..299
            /\ efs[i].ok <=> Response_ok(Response_from_web_response(fetchPromise[i].val))
            /\ efs[i].ok => efs[i].response = Response_from_web_response(fetchPromise[i].val)
            /\ ~efs[i].ok =>
                 /\ efs[i].err = [kind |-> "HttpError", code |-> st, msg |-> ExpectedMessage(st)]
                 /\ result[i] = [op |-> "error_for_status", ok |-> FALSE, err |-> efs[i].err]
                 /\ wrapper[i] = Absent

\* C3's case: error_for_status() has failed on a 404.
C3_Witness ==
    /\ efs[1].called
    /\ ~efs[1].ok
    /\ fetchPromise[1].val.status = 404
    /\ result[1].err = HttpError(404, "HTTP Error 404")

\* C4, as stated: every call of send() invokes the host's fetch exactly once.
\* The code violates it: send() returns early, before fetch, when the host
\* refuses to construct the request, refuses a header, or there is no window.
C4_FetchExactlyOncePerSend ==
    \A i \in Reqs : fetchCalls[i] = sends[i]

\* The errors send() returns from lib.rs 124, 128 and 132, before fetch.
PreFetchErrors ==
    {"TypeError: invalid URL", "TypeError: GET/HEAD request with body",
     "TypeError: invalid header value", "Failed to get window"}

SendFailedBeforeFetch(i) ==
    /\ pc[i] = "failed"
    /\ result[i].op = "send"
    /\ result[i].err.kind = "JsError"
    /\ result[i].err.msg \in PreFetchErrors

\* C4, amended: a call of send() invokes the host's fetch at most once; it
\* invokes it exactly once unless send() has returned one of the failures that
\* precede the fetch (request construction, header copy, window lookup), and
\* then it has invoked it zero times.  The count stays what it is when the host
\* resolves or rejects the fetch.
C4_FetchAtMostOncePerSend ==
    \A i \in Reqs :
      /\ fetchCalls[i] <= sends[i]
      /\ fetchCalls[i] <= 1
      /\ sends[i] >= 1 =>
           fetchCalls[i] = (IF SendFailedBeforeFetch(i) THEN 0 ELSE 1)

\* C4's case: send() has invoked fetch, the host has rejected it, and send()
\* has returned.
C4_Witness ==
    /\ sends[1] = 1
    /\ fetchCalls[1] = 1
    /\ fetchPromise[1].state = "rejected"
    /\ pc[1] = "failed"

\* C5: once the host has rejected the fetch, send() yields Error::JsError
\* carrying the host's rejection value, the caller never holds a Response
\* wrapper, and no body-reading operation is ever started.
C5_RejectedFetch ==
    \A i \in Reqs :
      fetchPromise[i].state = "rejected" =>
        /\ wrapper[i] = Absent
        /\ reads[i] = 0
        /\ readPromise[i] = NoPromise
        /\ pc[i] \in {"awaitFetch", "failed"}
        /\ pc[i] = "failed" =>
             result[i] = [op |-> "send", ok |-> FALSE,
                          err |-> [kind |-> "JsError", code |-> 0, msg |-> fetchPromise[i].val.msg]]

\* C5's case: the host rejected the fetch and send() has returned.
C5_Witness ==
    /\ fetchPromise[1] = FetchFailure
    /\ pc[1] = "failed"
    /\ result[1].op = "send"

\* C6: once json() or post_json() has been given a value that cannot be
\* serialized, the call has failed with Error::JsonError and nothing went to
\* the network: no host request object was constructed, send() was not
\* entered, and fetch was invoked zero times.
C6_SerializationFailurePrecedesSend ==
    \A i \in Reqs :
      (\E n \in 1..Len(calls[i]) : calls[i][n].op = "json" /\ ~Serializable(calls[i][n].value)) =>
        /\ pc[i] = "failed"
        /\ result[i].op = "json"
        /\ result[i].err.kind = "JsonError"
        /\ made[i] = 0
        /\ sends[i] = 0
        /\ fetchCalls[i] = 0
        /\ hostReq[i] = Absent
        /\ fetchPromise[i] = NoPromise

\* C6's case: post(url) configured, then json() given the unserializable
\* value.
C6_Witness ==
    /\ Len(calls[1]) = 2
    /\ calls[1][2] = JsonCall(JBadMap)
    /\ pc[1] = "failed"

\* What caller i passes in Spec: its own URL, Accept value and JSON value.
OwnBody(i) == [some |-> TRUE, text |-> to_string(ValueOf(i)).text]

OwnDescriptor(i, b) ==
    /\ b.url = UrlOf(i)
    /\ b.method \in {"Method::GET", "Method::POST"}
    /\ b.mode = "Cors"
    /\ b.headers \subseteq {<<"Accept", AcceptOf(i)>>, <<"Content-Type", "application/json">>}
    /\ b.body \in {NoBody, OwnBody(i)}

\* C7: with any number of callers in any interleaving, the builder of caller i
\* holds exactly what caller i's own calls put there; the request the host's
\* fetch is given for i has the method, URL, mode and body of i's builder and
\* was handed exactly the header pairs of i's builder; the Response i obtains
\* is the host's answer to i's request, and the body i reads is the body of
\* that answer.
C7_NoCrossContamination ==
    \A i \in Reqs :
      /\ pc[i] = "building" =>
           builder[i] = [url |-> UrlOf(i), method |-> "Method::POST", mode |-> "Cors",
                         headers |-> UNION {calls[i][n].pairs : n \in 1..Len(calls[i])},
                         body |-> IF \E n \in 1..Len(calls[i]) : calls[i][n].op = "json"
                                  THEN OwnBody(i) ELSE NoBody]
      /\ pc[i] = "awaitFetch" =>
           /\ OwnDescriptor(i, builder[i])
           /\ hostReq[i].url = builder[i].url
           /\ hostReq[i].method = (IF builder[i].method = "Method::POST" THEN "POST" ELSE "GET")
           /\ hostReq[i].mode = builder[i].mode
           /\ hostReq[i].body = builder[i].body
           /\ hostReq[i].handed = builder[i].headers
      /\ wrapper[i] # Absent =>
           /\ fetchPromise[i].state = "resolved"
           /\ wrapper[i].inner = fetchPromise[i].val
           /\ wrapper[i].inner.for = i
           /\ wrapper[i].inner.url = UrlOf(i)
      /\ readPromise[i].state = "resolved" => readPromise[i].val.for = i
      /\ pc[i] = "done" => result[i].ok /\ result[i].val = BodyOf(i)

\* C7's case: caller 1 has read the body of its answer while the request of
\* caller 2, configured with its own header, is in flight.
C7_Witness ==
    /\ pc[1] = "done"
    /\ result[1].val = BodyOf(1)
    /\ pc[2] = "awaitFetch"
    /\ hostReq[2].handed = {<<"Accept", AcceptOf(2)>>}
    /\ hostReq[2].url = UrlOf(2)

\* C8: Error::HttpError comes only from error_for_status(): send() (also
\* behind get and post_json), text(), json(), json_value() and bytes() never
\* return one, and once the host has resolved the fetch with a Response,
\* send() has not failed and has given the caller a wrapper of that Response,
\* whatever its status.
C8_HttpErrorOnlyFromErrorForStatus ==
    \A i \in Reqs :
      /\ result[i].err.kind = "HttpError" => result[i].op = "error_for_status"
      /\ (/\ fetchPromise[i].state = "resolved"
          /\ fetchPromise[i].val.kind = "Response"
          /\ pc[i] # "awaitFetch")
         => /\ result[i].op # "send"
            /\ pc[i] = "haveResponse" => wrapper[i] = [inner |-> fetchPromise[i].val]

\* C8's case: send() has returned a Response of status 404 and no
\* error_for_status() was called on it.
C8_Witness ==
    /\ pc[1] = "haveResponse"
    /\ wrapper[1].inner.status = 404
    /\ ~efs[1].called
    /\ result[1] = NoResult

SendReturned(i) == sends[i] >= 1 /\ pc[i] # "awaitFetch"

ReadReturned(i) == reads[i] >= 1 /\ pc[i] # "awaitRead"

Settled(promise) == promise.state \in {"resolved", "rejected"}

\* The part of the linear sequence that holds as the spec states it.
LinearOrder(i) ==
    /\ sends[i] <= 1 /\ fetchCalls[i] <= 1 /\ reads[i] <= 1
    /\ pc[i] = "building" => sends[i] = 0
    /\ sends[i] = 0 => fetchCalls[i] = 0 /\ fetchPromise[i] = NoPromise /\ hostReq[i] = Absent
    /\ sends[i] >= 1 => calls[i] = <<>>
    /\ pc[i] = "awaitFetch" =>
         /\ hostReq[i].handed = builder[i].headers
         /\ hostReq[i].url = builder[i].url
         /\ hostReq[i].body = builder[i].body
         /\ hostReq[i].mode = builder[i].mode
    /\ reads[i] >= 1 =>
         /\ SendReturned(i)
         /\ fetchPromise[i].state = "resolved"
         /\ fetchPromise[i].val.kind = "Response"
    /\ reads[i] = 0 => readPromise[i] = NoPromise
    /\ pc[i] = "failed" => builder[i] = Absent /\ wrapper[i] = Absent /\ hostReq[i] = Absent

\* C9, as stated: configuration precedes send(); only send() starts the fetch;
\* send() returns only after the host has settled the fetch; a body read starts
\* only after send() returned a Response and returns only after the host has
\* settled the read promise; no step happens twice and the descriptor is what
\* it was when send() was invoked.  The code violates the third part: send()
\* returns its early failures without any fetch having been started.
C9_LinearSequence ==
    \A i \in Reqs :
      /\ LinearOrder(i)
      /\ SendReturned(i) => Settled(fetchPromise[i])
      /\ ReadReturned(i) => Settled(readPromise[i])

ReadFailedBeforePromise(i) ==
    /\ pc[i] = "failed"
    /\ readPromise[i] = NoPromise
    /\ result[i].op \in ReadKinds
    /\ result[i].err.kind = "JsError"

\* C9, amended: as stated, except that send() may also return before any fetch
\* was started, with the failure of request construction, header copy or
\* window lookup, and that a body read may also return before any read promise
\* exists, with the failure the host threw when asked for one.
C9_LinearSequenceOrEarlyFailure ==
    \A i \in Reqs :
      /\ LinearOrder(i)
      /\ SendReturned(i) =>
           \/ Settled(fetchPromise[i])
           \/ fetchCalls[i] = 0 /\ fetchPromise[i] = NoPromise /\ SendFailedBeforeFetch(i)
      /\ ReadReturned(i) =>
           \/ Settled(readPromise[i])
           \/ ReadFailedBeforePromise(i)

\* C9's case: one request has gone through build, send, resolve, read body,
\* resolve.
C9_Witness ==
    /\ pc[1] = "done"
    /\ sends[1] = 1 /\ fetchCalls[1] = 1 /\ reads[1] = 1
    /\ fetchPromise[1].state = "resolved"
    /\ readPromise[1].state = "resolved"
    /\ result[1].ok

\* C10: on one Response wrapper at most one body-reading operation is ever
\* started, and none after error_for_status() has failed on it.
C10_SingleBodyRead ==
    \A i \in Reqs :
      /\ reads[i] <= 1
      /\ reads[i] = 1 => wrapper[i] = Absent
      /\ (efs[i].called /\ ~efs[i].ok) => reads[i] = 0 /\ wrapper[i] = Absent /\ readPromise[i] = NoPromise

\* C10's case: error_for_status() passed the wrapper on and json() has read
\* its body.
C10_Witness ==
    /\ efs[1].called /\ efs[1].ok
    /\ reads[1] = 1
    /\ readOp[1].kind = "json"
    /\ pc[1] = "done"

====
